---- MODULE Spec2Model ----
(***************************************************************************)
(* TGA encoder (src/tga/encoder.rs): TgaEncoder::encode derives an 18-byte *)
(* header from the pixel information, writes it field by field to the      *)
(* sink, copies the pixel buffer, exchanges bytes 0 and 2 of every pixel   *)
(* for Rgb8/Rgba8 and writes the pixel bytes.                              *)
(***************************************************************************)
EXTENDS Integers, Sequences, FiniteSets, TLC

\* ------------------------------------------------------------------ bounds
MaxBufLen == 8
MaxSmallDim == 2

\* --------------------------------------------------------------- constants
U16Max == 65535
ALPHA_BIT_MASK == 15
SCREEN_ORIGIN_BIT_MASK == 32
RawTrueColor == 2
RawGrayScale == 3

\* ------------------------------------------------------------------ inputs
RecognizedLayouts == {"L8", "La8", "Rgb8", "Bgr8", "Rgba8", "Bgra8"}
OtherLayouts == {"L16", "Rgba16"}
ColorType == RecognizedLayouts \cup OtherLayouts

\* u32 dimensions: the small ones, a value whose two bytes differ, the
\* largest u16 and two values that no longer fit a u16.
Dims == (0..MaxSmallDim) \cup {258, U16Max, U16Max + 1, U16Max + 2}

\* Pixel buffers of every length up to MaxBufLen; all bytes of a buffer are
\* distinct, so that any reordering of it is visible.
BufBases == {0, 10}
Buffers == { [i \in 1..n |-> b + i - 1] : n \in 0..MaxBufLen, b \in BufBases }

\* ------------------------------------------------------------- error values
Res(k, v, c) == [kind |-> k, value |-> v, color |-> c]
NoResult == Res("None", 0, "")
Ok == Res("Ok", 0, "")
WidthInvalid(w) == Res("WidthInvalid", w, "")
HeightInvalid(h) == Res("HeightInvalid", h, "")
Unsupported(ct) == Res("Unsupported", 0, ct)
SinkFailure == Res("SinkFailure", 0, "")
Panic == Res("Panic", 0, "")

\* ------------------------------------------------------------ pure helpers
RECURSIVE BitAnd(_, _)
BitAnd(a, b) ==
    IF a = 0 \/ b = 0 THEN 0
    ELSE (IF a % 2 = 1 /\ b % 2 = 1 THEN 1 ELSE 0) + 2 * BitAnd(a \div 2, b \div 2)

RECURSIVE BitOr(_, _)
BitOr(a, b) ==
    IF a = 0 THEN b
    ELSE IF b = 0 THEN a
    ELSE (IF a % 2 = 1 \/ b % 2 = 1 THEN 1 ELSE 0) + 2 * BitOr(a \div 2, b \div 2)

\* u16::try_from(u32) succeeds exactly for values that fit 16 bits.
u16_try_fromOffByOne(v) == v < U16Max
u16_try_from(v) == v <= U16Max

\* ColorType::bytes_per_pixel
bytes_per_pixel(ct) ==
    CASE ct = "L8" -> 1
      [] ct = "La8" -> 2
      [] ct = "Rgb8" -> 3
      [] ct = "Bgr8" -> 3
      [] ct = "Rgba8" -> 4
      [] ct = "Bgra8" -> 4
      [] ct = "L16" -> 2
      [] ct = "Rgba16" -> 8

\* Header::default()
DefaultHeader ==
    [id_length |-> 0, map_type |-> 0, image_type |-> 0, map_origin |-> 0,
     map_length |-> 0, map_entry_size |-> 0, x_origin |-> 0, y_origin |-> 0,
     image_width |-> 0, image_height |-> 0, pixel_depth |-> 0, image_desc |-> 0]

\* The match on color_type in from_pixel_info:
\* (num_alpha_bits, other_channel_bits, image_type), or no arm at all.
color_type_infoFallThrough(ct) ==
    CASE ct \in {"Rgba8", "Bgra8"} -> [ok |-> TRUE, alpha |-> 8, other |-> 24, type |-> RawTrueColor]
      [] ct \in {"Rgb8", "Bgr8"} -> [ok |-> TRUE, alpha |-> 0, other |-> 24, type |-> RawTrueColor]
      [] ct = "La8" -> [ok |-> TRUE, alpha |-> 8, other |-> 8, type |-> RawGrayScale]
      [] OTHER -> [ok |-> TRUE, alpha |-> 0, other |-> 8, type |-> RawGrayScale]
color_type_info(ct) ==
    CASE ct \in {"Rgba8", "Bgra8"} -> [ok |-> TRUE, alpha |-> 8, other |-> 24, type |-> RawTrueColor]
      [] ct \in {"Rgb8", "Bgr8"} -> [ok |-> TRUE, alpha |-> 0, other |-> 24, type |-> RawTrueColor]
      [] ct = "La8" -> [ok |-> TRUE, alpha |-> 8, other |-> 8, type |-> RawGrayScale]
      [] ct = "L8" -> [ok |-> TRUE, alpha |-> 0, other |-> 8, type |-> RawGrayScale]
      [] OTHER -> [ok |-> FALSE, alpha |-> 0, other |-> 0, type |-> 0]

\* The header a supported layout and two fitting dimensions produce.
PopulatedHeader(info, w, h) ==
    [DefaultHeader EXCEPT
        !.image_width = w,
        !.image_height = h,
        !.image_type = info.type,
        !.pixel_depth = info.alpha + info.other,
        !.image_desc = BitOr(BitAnd(info.alpha, ALPHA_BIT_MASK), SCREEN_ORIGIN_BIT_MASK)]

Derived(h) == [ok |-> TRUE, header |-> h, err |-> NoResult]
Failed(e) == [ok |-> FALSE, header |-> DefaultHeader, err |-> e]

\* Header::from_pixel_info
from_pixel_infoEitherPositive(ct, w, h) ==
    IF w > 0 \/ h > 0 THEN
        IF ~u16_try_from(w) THEN Failed(WidthInvalid(w))
        ELSE IF ~u16_try_from(h) THEN Failed(HeightInvalid(h))
        ELSE IF ~color_type_info(ct).ok THEN Failed(Unsupported(ct))
        ELSE Derived(PopulatedHeader(color_type_info(ct), w, h))
    ELSE Derived(DefaultHeader)
from_pixel_infoLayoutFirst(ct, w, h) ==
    IF w > 0 /\ h > 0 THEN
        IF ~color_type_info(ct).ok THEN Failed(Unsupported(ct))
        ELSE IF ~u16_try_from(h) THEN Failed(HeightInvalid(h))
        ELSE IF ~u16_try_from(w) THEN Failed(WidthInvalid(w))
        ELSE Derived(PopulatedHeader(color_type_info(ct), w, h))
    ELSE Derived(DefaultHeader)
from_pixel_info(ct, w, h) ==
    IF w > 0 /\ h > 0 THEN
        IF ~u16_try_from(w) THEN Failed(WidthInvalid(w))
        ELSE IF ~u16_try_from(h) THEN Failed(HeightInvalid(h))
        ELSE IF ~color_type_info(ct).ok THEN Failed(Unsupported(ct))
        ELSE Derived(PopulatedHeader(color_type_info(ct), w, h))
    ELSE Derived(DefaultHeader)

\* The order and the byte width of the fields Header::write_to writes.
HeaderFields ==
    << <<"id_length", 1>>, <<"map_type", 1>>, <<"image_type", 1>>,
       <<"map_origin", 2>>, <<"map_length", 2>>, <<"map_entry_size", 1>>,
       <<"x_origin", 2>>, <<"y_origin", 2>>, <<"image_width", 2>>,
       <<"image_height", 2>>, <<"pixel_depth", 1>>, <<"image_desc", 1>> >>

\* write_u8 / write_u16::<LittleEndian>: the n bytes of v, lowest first.
RECURSIVE BigEndian(_, _)
BigEndian(v, n) == IF n = 0 THEN <<>> ELSE BigEndian(v \div 256, n - 1) \o <<v % 256>>
RECURSIVE LittleEndian(_, _)
LittleEndian(v, n) == IF n = 0 THEN <<>> ELSE <<v % 256>> \o LittleEndian(v \div 256, n - 1)

FieldBytes(hd, i) == LittleEndian(hd[HeaderFields[i][1]], HeaderFields[i][2])

\* slice::chunks_mut(n): consecutive chunks of n elements, the last one shorter
\* when the length is not a multiple of n.
RECURSIVE chunks(_, _)
chunks(s, n) ==
    IF Len(s) = 0 THEN <<>>
    ELSE IF Len(s) <= n THEN <<s>>
    ELSE <<SubSeq(s, 1, n)>> \o chunks(SubSeq(s, n + 1, Len(s)), n)

\* slice::swap(a, b) with 0-based indices; it panics on an index out of bounds.
swap_panics(chunk, a, b) == a >= Len(chunk) \/ b >= Len(chunk)
swapFirstTwo(chunk, a, b) ==
    [i \in 1..Len(chunk) |->
        IF i = 1 /\ Len(chunk) >= 2 THEN chunk[2]
        ELSE IF i = 2 THEN chunk[1]
        ELSE chunk[i]]
swap(chunk, a, b) ==
    [i \in 1..Len(chunk) |->
        IF i = a + 1 THEN chunk[b + 1]
        ELSE IF i = b + 1 THEN chunk[a + 1]
        ELSE chunk[i]]

RECURSIVE Flatten(_)
Flatten(cs) == IF Len(cs) = 0 THEN <<>> ELSE Head(cs) \o Flatten(Tail(cs))

\* The arm of `match color_type` that reorders the copy.
swaps_channelsEveryColour(ct) == ct \in {"Rgb8", "Rgba8", "Bgr8", "Bgra8"}
swaps_channels(ct) == ct \in {"Rgb8", "Rgba8"}

\* Lines 67-76: the copy of buf after the match.
ReorderPanics(b, ct) ==
    /\ swaps_channels(ct)
    /\ \E i \in 1..Len(chunks(b, bytes_per_pixel(ct))) :
          swap_panics(chunks(b, bytes_per_pixel(ct))[i], 0, 2)
Reordered(b, ct) ==
    IF swaps_channels(ct)
    THEN Flatten([i \in 1..Len(chunks(b, bytes_per_pixel(ct))) |->
                    swap(chunks(b, bytes_per_pixel(ct))[i], 0, 2)])
    ELSE b

\* --------------------------------------------------------------------- state
VARIABLES pc, buf, width, height, color_type, sink, result, header, field,
          image, decoded

vars == <<pc, buf, width, height, color_type, sink, result, header, field,
          image, decoded>>

NotDecoded == [ok |-> FALSE, data |-> <<>>]

\* TgaEncoder::new(w): nothing has been written to w yet.
Init ==
    /\ pc = "new"
    /\ buf = <<>>
    /\ width = 0
    /\ height = 0
    /\ color_type = "L8"
    /\ sink = <<>>
    /\ result = NoResult
    /\ header = DefaultHeader
    /\ field = 1
    /\ image = <<>>
    /\ decoded = NotDecoded

\* encode(buf, width, height, color_type), line 63: derive the header; `?`
\* returns the error before anything is written.
encodeWritesFirst ==
    /\ pc = "new"
    /\ \E b \in Buffers, w \in Dims, h \in Dims, ct \in ColorType :
        /\ buf' = b
        /\ width' = w
        /\ height' = h
        /\ color_type' = ct
        /\ header' = from_pixel_info(ct, w, h).header
        /\ sink' = <<0>>
        /\ IF from_pixel_info(ct, w, h).ok
           THEN pc' = "header" /\ result' = NoResult
           ELSE pc' = "done" /\ result' = from_pixel_info(ct, w, h).err
    /\ UNCHANGED <<field, image, decoded>>
encode ==
    /\ pc = "new"
    /\ \E b \in Buffers, w \in Dims, h \in Dims, ct \in ColorType :
        /\ buf' = b
        /\ width' = w
        /\ height' = h
        /\ color_type' = ct
        /\ header' = from_pixel_info(ct, w, h).header
        /\ IF from_pixel_info(ct, w, h).ok
           THEN pc' = "header" /\ result' = NoResult
           ELSE pc' = "done" /\ result' = from_pixel_info(ct, w, h).err
    /\ UNCHANGED <<sink, field, image, decoded>>

\* Header::write_to, one write_u8 / write_u16 per step.  write_all hands the
\* bytes to the sink, which accepts all of them or fails after the first k;
\* `?` returns the failure at once.
write_toIgnoresFailure ==
    /\ pc = "header"
    /\ \E k \in 0..Len(FieldBytes(header, field)) :
        /\ sink' = sink \o SubSeq(FieldBytes(header, field), 1, k)
        /\ IF field < Len(HeaderFields)
           THEN pc' = "header" /\ field' = field + 1
           ELSE pc' = "copy" /\ field' = field
        /\ result' = result
    /\ UNCHANGED <<buf, width, height, color_type, header, image, decoded>>
write_to ==
    /\ pc = "header"
    /\ \E k \in 0..Len(FieldBytes(header, field)) :
        /\ sink' = sink \o SubSeq(FieldBytes(header, field), 1, k)
        /\ IF k < Len(FieldBytes(header, field))
           THEN pc' = "done" /\ result' = SinkFailure /\ field' = field
           ELSE IF field < Len(HeaderFields)
           THEN pc' = "header" /\ result' = result /\ field' = field + 1
           ELSE pc' = "copy" /\ result' = result /\ field' = field
    /\ UNCHANGED <<buf, width, height, color_type, header, image, decoded>>

\* Lines 67-76: Vec::from(buf) and the channel exchange on the copy.
reorder ==
    /\ pc = "copy"
    /\ IF ReorderPanics(buf, color_type)
       THEN pc' = "done" /\ result' = Panic /\ image' = image
       ELSE pc' = "pixels" /\ result' = result /\ image' = Reordered(buf, color_type)
    /\ UNCHANGED <<buf, width, height, color_type, sink, header, field, decoded>>

\* Lines 78-79: self.writer.write_all(&image)?; Ok(())
write_pixels ==
    /\ pc = "pixels"
    /\ \E k \in 0..Len(image) :
        /\ sink' = sink \o SubSeq(image, 1, k)
        /\ result' = IF k < Len(image) THEN SinkFailure ELSE Ok
    /\ pc' = "done"
    /\ UNCHANGED <<buf, width, height, color_type, header, field, image, decoded>>

\* The decoder of the format, as far as the round-trip tests use it: it reads
\* the dimensions, the image type and the pixel depth from the header, takes
\* width * height * depth/8 pixel bytes and returns true-colour pixels with
\* bytes 0 and 2 exchanged, grayscale pixels as stored.
TgaDecode(bytes) ==
    IF Len(bytes) < 18 THEN NotDecoded
    ELSE
      LET type   == bytes[3]
          w      == bytes[13] + 256 * bytes[14]
          h      == bytes[15] + 256 * bytes[16]
          stride == bytes[17] \div 8
          avail  == Len(bytes) - 18
          \* fewer stored bytes than width * height * stride (the comparisons
          \* with avail first keep the product small)
          short  == /\ w > 0 /\ h > 0 /\ stride > 0
                    /\ (w > avail \/ h > avail \/ w * h * stride > avail)
          n      == w * h * stride
          stored == SubSeq(bytes, 19, 18 + n)
      IN  IF type \notin {RawTrueColor, RawGrayScale} \/ short
          THEN NotDecoded
          ELSE [ok |-> TRUE,
                data |-> IF type = RawTrueColor
                         THEN [i \in 1..n |->
                                 IF (i - 1) % stride = 0 THEN stored[i + 2]
                                 ELSE IF (i - 1) % stride = 2 THEN stored[i - 2]
                                 ELSE stored[i]]
                         ELSE stored]

\* tests::round_trip_image: decode what a successful encode wrote.
round_trip_image ==
    /\ pc = "done"
    /\ result = Ok
    /\ decoded' = TgaDecode(sink)
    /\ pc' = "decoded"
    /\ UNCHANGED <<buf, width, height, color_type, sink, result, header, field, image>>

Next ==
    \/ encode
    \/ write_to
    \/ reorder
    \/ write_pixels
    \/ round_trip_image

Spec == Init /\ [][Next]_vars

\* ------------------------------------------------------------ vocabulary
Called == pc # "new"
Finished == pc \in {"done", "decoded"}
Recognized == color_type \in RecognizedLayouts
FitsU16(v) == v >= 1 /\ v <= U16Max
DimensionsFit == FitsU16(width) /\ FitsU16(height)
ValidationErrors == {"WidthInvalid", "HeightInvalid", "Unsupported"}

\* Len(buf) = width * height * bytes_per_pixel (the comparisons with the
\* length first keep the product small).
BufferMatches ==
    /\ width <= Len(buf)
    /\ height <= Len(buf)
    /\ width * height * bytes_per_pixel(color_type) = Len(buf)

\* Len(sink) = 18 + width * height * bytes_per_pixel
SinkHoldsWholeImage ==
    /\ width <= Len(sink)
    /\ height <= Len(sink)
    /\ Len(sink) = 18 + width * height * bytes_per_pixel(color_type)

IsPrefix(s, t) == Len(s) <= Len(t) /\ \A i \in 1..Len(s) : s[i] = t[i]

\* b with byte 0 and byte 2 of every n-byte pixel exchanged.
Exchanged(b, n) ==
    [i \in 1..Len(b) |->
        IF (i - 1) % n = 0 THEN b[i + 2]
        ELSE IF (i - 1) % n = 2 THEN b[i - 2]
        ELSE b[i]]

\* What the sink holds after the 18 header bytes.
PixelBytesWritten == SubSeq(sink, 19, Len(sink))

\* The 18 header bytes of the file layout for a recognized layout.
ExpectedHeader(ct, w, h) ==
    << 0, 0,
       IF ct \in {"Rgb8", "Bgr8", "Rgba8", "Bgra8"} THEN 2 ELSE 3,
       0, 0, 0, 0, 0, 0, 0, 0, 0,
       w % 256, w \div 256,
       h % 256, h \div 256,
       CASE ct = "L8" -> 8
         [] ct = "La8" -> 16
         [] ct \in {"Rgb8", "Bgr8"} -> 24
         [] ct \in {"Rgba8", "Bgra8"} -> 32,
       IF ct \in {"La8", "Rgba8", "Bgra8"} THEN 40 ELSE 32 >>

ZeroHeader == [i \in 1..18 |-> 0]

\* --------------------------------------------------------------------- C1
\* C1 as stated: for every recognized layout and width, height in 1..65535,
\* whatever the length of the buffer, encode succeeds (the sink accepting
\* every byte) and the sink holds exactly 18 + width*height*bytes_per_pixel
\* bytes.
C1_AnyBufferEncodes ==
    (Finished /\ Recognized /\ DimensionsFit /\ result # SinkFailure)
        => (result = Ok /\ SinkHoldsWholeImage)

\* C1 amended: for every recognized layout and width, height in 1..65535
\* encode raises no validation error; when moreover the buffer holds exactly
\* width*height*bytes_per_pixel bytes and the sink accepts every byte, encode
\* succeeds and the sink holds exactly 18 + width*height*bytes_per_pixel bytes.
C1_SizedBufferEncodes ==
    (Finished /\ Recognized /\ DimensionsFit) =>
        /\ result.kind \notin ValidationErrors
        /\ (BufferMatches /\ result # SinkFailure)
              => (result = Ok /\ SinkHoldsWholeImage /\ Len(sink) = 18 + Len(buf))

C1_Witness ==
    /\ pc = "done" /\ result = Ok
    /\ color_type = "Rgba8" /\ width = 2 /\ height = 1
    /\ Len(buf) = 8 /\ Len(sink) = 26

\* --------------------------------------------------------------------- C2
\* C2: whenever width > 65535 or height > 65535 encode fails with the
\* dimension error carrying the offending value, for every layout and every
\* value 0..65535 of the other dimension.
C2_OversizedDimensionRejected ==
    Finished =>
        /\ (width > U16Max /\ height <= U16Max) => result = WidthInvalid(width)
        /\ (height > U16Max /\ width <= U16Max) => result = HeightInvalid(height)
        /\ (width > U16Max /\ height > U16Max)
              => result \in {WidthInvalid(width), HeightInvalid(height)}

C4_UnsupportedForAnyPositiveSize ==
    (Called /\ ~Recognized /\ width > 0 /\ height > 0)
        => result = Unsupported(color_type)

\* C4 amended: for every layout outside the recognized set and every width
\* and height in 1..65535, encode fails with Unsupported naming the layout.
C4_UnsupportedLayoutRejected ==
    (Called /\ ~Recognized /\ DimensionsFit)
        => (pc = "done" /\ result = Unsupported(color_type))

C4_Witness ==
    /\ pc = "done" /\ result = Unsupported("L16")
    /\ width = U16Max /\ height = 1

\* --------------------------------------------------------------------- C5
\* C5: whenever encode returns WidthInvalid, HeightInvalid or Unsupported,
\* nothing has been written to the sink.
C5_ValidationErrorWritesNothing ==
    result.kind \in ValidationErrors => (pc = "done" /\ sink = <<>>)

C5_Witness ==
    /\ pc = "done" /\ result = HeightInvalid(U16Max + 2)
    /\ width = 1 /\ Len(buf) = 3 /\ sink = <<>>

\* --------------------------------------------------------------------- C6
\* C6 as stated: for Rgb8, Bgr8, Rgba8 and Bgra8 and a buffer whose length is
\* a multiple of the stride, the pixel bytes written are the buffer with
\* bytes 0 and 2 of every pixel exchanged; for L8 and La8 they are the buffer.
C6_EveryColourLayoutExchanged ==
    (Finished /\ result = Ok /\ Recognized
       /\ Len(buf) % bytes_per_pixel(color_type) = 0) =>
        PixelBytesWritten =
            IF color_type \in {"Rgb8", "Bgr8", "Rgba8", "Bgra8"}
            THEN Exchanged(buf, bytes_per_pixel(color_type))
            ELSE buf

\* C6 amended: for Rgb8 and Rgba8 and a buffer whose length is a multiple of
\* the stride, the pixel bytes written after the header are the buffer with
\* bytes 0 and 2 of every pixel exchanged and every other byte unchanged; for
\* Bgr8, Bgra8, L8 and La8 they are byte for byte the buffer.  (What a failing
\* sink accepted of them is a prefix of that.)
C6_RgbExchangedOthersVerbatim ==
    (Called /\ Recognized /\ Len(buf) % bytes_per_pixel(color_type) = 0
       /\ Len(sink) >= 18) =>
        LET expected == IF color_type \in {"Rgb8", "Rgba8"}
                        THEN Exchanged(buf, bytes_per_pixel(color_type))
                        ELSE buf
        IN  /\ IsPrefix(PixelBytesWritten, expected)
            /\ result = Ok => PixelBytesWritten = expected

C6_Witness ==
    /\ pc = "done" /\ result = Ok /\ color_type = "Rgba8"
    /\ buf = <<0, 1, 2, 3, 4, 5, 6, 7>>
    /\ PixelBytesWritten = <<2, 1, 0, 3, 6, 5, 4, 7>>

\* --------------------------------------------------------------------- C7
\* C7: encoding a buffer of width*height pixels and decoding the result gives
\* the buffer back for Rgb8, Rgba8, L8 and La8, and the buffer with bytes 0
\* and 2 of every pixel exchanged for Bgr8 and Bgra8.
C7_RoundTrip ==
    (pc = "decoded" /\ Recognized /\ DimensionsFit /\ BufferMatches) =>
        /\ decoded.ok
        /\ decoded.data =
              IF color_type \in {"Bgr8", "Bgra8"}
              THEN Exchanged(buf, bytes_per_pixel(color_type))
              ELSE buf

C7_Witness ==
    /\ pc = "decoded" /\ color_type = "Bgra8" /\ width = 1 /\ height = 1
    /\ buf = <<0, 1, 2, 3>>
    /\ decoded = [ok |-> TRUE, data |-> <<2, 1, 0, 3>>]

\* --------------------------------------------------------------------- C8
\* C8: for every recognized layout and width, height in 1..65535 the bytes
\* encode writes first are the 18 bytes of the file layout (type 2 or 3,
\* little-endian width and height, pixel depth, descriptor 0x20 plus the
\* alpha bits), and on success the pixel bytes follow at offset 18 with
\* nothing in between or after.
C8_HeaderBytes ==
    (Called /\ Recognized /\ DimensionsFit) =>
        /\ IsPrefix(SubSeq(sink, 1, IF Len(sink) < 18 THEN Len(sink) ELSE 18),
                    ExpectedHeader(color_type, width, height))
        /\ (pc \in {"copy", "pixels"}) => Len(sink) = 18
        /\ result = Ok => Len(sink) = 18 + Len(buf)

C8_Witness ==
    /\ pc = "done" /\ result = Ok /\ color_type = "La8"
    /\ width = 258 /\ height = U16Max
    /\ SubSeq(sink, 1, 18) = <<0, 0, 3, 0, 0, 0, 0, 0, 0, 0, 0, 0, 2, 1, 255, 255, 16, 40>>

\* --------------------------------------------------------------------- C9
\* The whole output of a call that passed validation: the header bytes, then
\* the reordered pixel bytes.
ExpectedOutputPrefix ==
    LET hdr == IF width = 0 \/ height = 0 THEN ZeroHeader
               ELSE ExpectedHeader(color_type, width, height)
    IN  IF Len(sink) <= 18 THEN hdr
        ELSE hdr \o (IF color_type \in {"Rgb8", "Rgba8"}
                     THEN Exchanged(buf, bytes_per_pixel(color_type))
                     ELSE buf)

\* C9: at every point of an encode call that passed validation the sink holds
\* a prefix of the 18 header bytes followed by the reordered pixel bytes (so
\* no pixel byte precedes the 18th header byte); the sink never loses a byte;
\* once the sink has failed the call is over with the sink's failure as its
\* result and nothing more is written.
C9_SinkHoldsPrefix ==
    /\ [](/\ (Called /\ result.kind \notin ValidationErrors)
                => IsPrefix(sink, ExpectedOutputPrefix)
          /\ pc = "header" => Len(sink) < 18
          /\ result = SinkFailure => pc = "done")
    /\ [][/\ IsPrefix(sink, sink')
          /\ result = SinkFailure => (sink' = sink /\ result' = result)]_vars

C9_Witness ==
    /\ pc = "done" /\ result = SinkFailure
    /\ color_type = "Rgb8" /\ Len(buf) = 6 /\ Len(sink) = 20
    /\ PixelBytesWritten = <<buf[3], buf[2]>>

\* -------------------------------------------------------------------- C10
\* C10: with width > 0 and height > 0 the width is checked first, then the
\* height, then the layout: two oversized dimensions report WidthInvalid(width)
\* only, and an oversized dimension with an unsupported layout reports the
\* dimension error.
C10_ErrorPrecedence ==
    (Called /\ width > 0 /\ height > 0) =>
        /\ width > U16Max => result = WidthInvalid(width)
        /\ (width <= U16Max /\ height > U16Max) => result = HeightInvalid(height)
        /\ result.kind = "Unsupported" => (width <= U16Max /\ height <= U16Max)

C10_Witness ==
    /\ pc = "done" /\ result = WidthInvalid(U16Max + 1)
    /\ height = U16Max + 2 /\ color_type = "Rgba16"

====
